---- MODULE Spec2Model ----
(***************************************************************************)
(* Table lifecycle of the two backend adapters of anais_pipeline           *)
(* (DuckDBPipeline, the embedded engine; PostgreSQLLoader, the networked   *)
(* engine) and the orchestration procedures that drive them.               *)
(*                                                                         *)
(* A database is a catalog: a function from (schema, table name) to a      *)
(* table (its column set and its rows).  A name written without a schema   *)
(* in an SQL statement resolves to the default schema of the search path.  *)
(* The networked engine is transactional: the adapter's connection begins  *)
(* a transaction on its first statement and sees its own uncommitted       *)
(* changes; the embedded engine commits each statement.                    *)
(***************************************************************************)
EXTENDS Integers, Sequences, FiniteSets, TLC

\* ------------------------------------------------------------------ bounds
\* Largest number of rows a table of the model may hold.
MaxRows == 2

\* ------------------------------------------------------------- the domain
\* Table names are sequences of characters, so that the archive name
\* ('z' + name) and the LIKE 'z%' filter are computed, not assumed.
NameT == <<"t">>
HistoName(n) == <<"z">> \o n
Names == {NameT, HistoName(NameT)}
\* A name no table has; the CSV files and CREATE TABLE files of the input
\* directories are those of NameT, and of no table at all.
NameNone == <<"n">>
Stems == {NameT, NameNone}
\* A table of its own whose name begins with 'z' and is no table's archive.
NameZone == <<"z", "o">>

\* The schema unqualified names resolve to, and another schema.
DefaultSchema == "main"
Schemas == {DefaultSchema, "aux"}

\* A row: the identity of the CSV line it came from, and the columns in which
\* it holds a value (the others are NULL).
NoTable == [ex |-> FALSE, cols |-> {}, rows |-> <<>>]
MkTable(cols, rows) == [ex |-> TRUE, cols |-> cols, rows |-> rows]
TableIds == Schemas \X (Names \cup {NameZone})
EmptyCatalog == [k \in TableIds |-> NoTable]

\* information_schema.tables: the (schema, name) pairs of the catalog.
InfoSchemaTables(d) == {k \in DOMAIN d : d[k].ex}
\* The catalog entry an unqualified table name resolves to.
Resolve(n) == <<DefaultSchema, n>>
\* An unqualified statement on n finds its table.
Resolves(d, n) == Resolve(n) \in DOMAIN d /\ d[Resolve(n)].ex

\* Rows of a source table as they arrive in a table with columns `cols`.
Project(rows, cols) == [i \in 1..Len(rows) |-> [id |-> rows[i].id, nn |-> rows[i].nn \cap cols]]
\* The identities of a row sequence, in order.
Ids(rows) == [i \in 1..Len(rows) |-> rows[i].id]

\* ------------------------------------------------------------------ state
VARIABLES
    typedb,      \* "duckdb" | "postgres": the adapter class constructed
    schema,      \* self.schema
    stagingCfg,  \* self.staging_db_config is given
    staging,     \* the staging database: name -> table
    db,          \* the target database as the adapter's connection sees it
    saved,       \* the committed target database (differs from db inside a transaction)
    txState,     \* "none" | "active" | "failed": the connection's transaction
    connOpen,    \* self.conn is open
    tmpOpen,     \* connections opened inside an operation and not yet closed
    pc,          \* position inside a multi-step operation, "idle" between calls
    frame,       \* the locals of the operation in progress
    pre,         \* the catalog when the operation in progress began
    txLog,       \* begin/commit/rollback events of the current call
    last,        \* outcome of the last call: what it logged, returned, raised
    proc,        \* the orchestration procedure running, "none" outside one
    opc,         \* the procedure's position
    env,         \* what the procedure finds on disk when it starts
    filled,      \* the embedded database holds at least one table
    loaderConn,  \* the loader's connection is open
    duckdb_empty,\* the procedure's local duckdb_empty
    calls,       \* the loader and tool calls made, in order
    errorLog,    \* the procedure's own logger.error messages
    exc,         \* the call whose exception leaves the procedure, or "none"
    dbt          \* a call of run_dbt: its arguments, position, commands and log

adapterVars == <<typedb, schema, stagingCfg, staging, db, saved, txState, connOpen,
                 tmpOpen, pc, frame, pre, txLog, last>>
orchVars == <<proc, opc, env, filled, loaderConn, duckdb_empty, calls, errorLog, exc>>
dbtVars == <<dbt>>
vars == <<adapterVars, orchVars, dbtVars>>

\* how: the operation in progress (or just ended); src, tgt: its table
\* arguments; df: the dataframe it holds.
NoFrame == [how |-> "none", src |-> NameNone, tgt |-> NameNone, df |-> NoTable]
\* op, tbl: the call and its table argument; failed: the statement of the call
\* that failed ("none" when none did); raised: an exception left the call;
\* warned, errored: logger.warning / logger.error was called; ret: the value
\* returned.
Outcome(op, tbl, r) ==
    [op |-> op, tbl |-> tbl, failed |-> r.failed, raised |-> r.raised,
     warned |-> r.warned, errored |-> r.errored, ret |-> r.ret]
Quiet == [failed |-> "none", raised |-> FALSE, warned |-> FALSE, errored |-> FALSE, ret |-> FALSE]
NoOutcome == Outcome("none", NameNone, Quiet)

\* The staging database the model is run against: one table, NameT.
StagingTable ==
    MkTable({"a", "b"}, <<[id |-> 1, nn |-> {"a", "b"}], [id |-> 2, nn |-> {"a", "b"}]>>)
StagingCatalog == [n \in Names |-> IF n = NameT THEN StagingTable ELSE NoTable]

\* The adapters the model constructs: the class, db_config["schema"], and
\* whether a staging configuration is passed.
Configs ==
    { [typedb |-> "duckdb", schema |-> DefaultSchema, stagingCfg |-> TRUE],
      [typedb |-> "duckdb", schema |-> DefaultSchema, stagingCfg |-> FALSE],
      [typedb |-> "postgres", schema |-> DefaultSchema, stagingCfg |-> TRUE] }

NoEnv == [csv |-> FALSE, sql |-> FALSE, stagingFile |-> FALSE]

\* run_dbt is not being called.
NoDbt ==
    [pc |-> "idle", profile |-> "", target |-> "", project_dir |-> "", lock |-> FALSE,
     exit |-> 0, cmds |-> <<>>, errored |-> FALSE, raised |-> "none"]

\* No orchestration procedure is running.
OrchIdle ==
    /\ proc = "none"
    /\ opc = "done"
    /\ env = NoEnv
    /\ filled = FALSE
    /\ loaderConn = FALSE
    /\ duckdb_empty = TRUE
    /\ calls = <<>>
    /\ errorLog = {}
    /\ exc = "none"
    /\ dbt = NoDbt

AdapterInit(c) ==
    /\ typedb = c.typedb /\ schema = c.schema /\ stagingCfg = c.stagingCfg
    /\ staging = StagingCatalog
    /\ db = EmptyCatalog
    /\ saved = EmptyCatalog
    /\ txState = "none"
    /\ connOpen = FALSE
    /\ tmpOpen = 0
    /\ pc = "idle"
    /\ frame = NoFrame
    /\ pre = EmptyCatalog
    /\ txLog = <<>>
    /\ last = NoOutcome

Init == (\E c \in Configs : AdapterInit(c)) /\ OrchIdle

\* ------------------------------------------------- the networked engine's
\* transaction, as SQLAlchemy's Connection drives it
\* The committed catalog once the connection has begun (or already holds) a
\* transaction: its snapshot is taken when the transaction begins.
Snapshot == IF txState = "none" THEN db ELSE saved

\* ------------------------------------------------------ connect and close
connect ==
    /\ pc = "idle" /\ ~connOpen
    /\ connOpen' = TRUE
    /\ last' = Outcome("connect", NameNone, Quiet)
    /\ txLog' = <<>>
    /\ frame' = NoFrame
    /\ pre' = EmptyCatalog
    /\ UNCHANGED <<orchVars, dbtVars, typedb, schema, stagingCfg, staging, db, saved, txState, tmpOpen, pc>>

\* Closing returns the connection: an open transaction is rolled back.
close ==
    /\ pc = "idle" /\ connOpen
    /\ connOpen' = FALSE
    /\ db' = Snapshot
    /\ saved' = Snapshot
    /\ txState' = "none"
    /\ last' = Outcome("close", NameNone, Quiet)
    /\ txLog' = <<>>
    /\ frame' = NoFrame
    /\ pre' = EmptyCatalog
    /\ UNCHANGED <<orchVars, dbtVars, typedb, schema, stagingCfg, staging, tmpOpen, pc>>

\* --------------------------------------------------- the end of a call
\* What an operation hands back: the catalog its connection now sees, the
\* transaction state, and what the caller observes.
Res(d, tx, o) ==
    [db |-> d, tx |-> tx, failed |-> o.failed, raised |-> o.raised,
     warned |-> o.warned, errored |-> o.errored, ret |-> o.ret]
Returned(ret) == [Quiet EXCEPT !.ret = ret]
Warned == [Quiet EXCEPT !.warned = TRUE]
\* A statement failed and the exception left the call without being logged.
Propagated(stmt) == [Quiet EXCEPT !.failed = stmt, !.raised = TRUE]
\* A statement failed, the handler logged it and raised again.
LoggedAndRaised(stmt) == [Quiet EXCEPT !.failed = stmt, !.raised = TRUE, !.errored = TRUE]
\* A statement failed, the handler logged it and the call returned.
Swallowed(stmt) == [Quiet EXCEPT !.failed = stmt, !.errored = TRUE]

\* The committed catalog after a call that leaves the connection's view d and
\* the transaction tx.
SavedAfter(d, tx) == IF tx = "none" THEN d ELSE Snapshot

\* A one-step operation returns (or raises) with result r.
Return(op, tbl, r, log) ==
    /\ db' = r.db
    /\ txState' = r.tx
    /\ saved' = SavedAfter(r.db, r.tx)
    /\ last' = Outcome(op, tbl, r)
    /\ txLog' = log
    /\ frame' = NoFrame
    /\ pre' = EmptyCatalog
    /\ UNCHANGED <<orchVars, dbtVars, typedb, schema, stagingCfg, staging, connOpen, tmpOpen, pc>>

\* One statement of the networked engine on the adapter's connection: it
\* raises in a failed transaction or when the statement itself fails (ok is
\* false), and the transaction is then failed; otherwise the connection sees d2.
PgExec(stmt, ok, d2, ret) ==
    IF txState = "failed" \/ ~ok
    THEN Res(db, "failed", Propagated(stmt))
    ELSE Res(d2, "active", Returned(ret))

\* One statement of the embedded engine: committed at once.
DuckExec(stmt, ok, d2, ret) ==
    IF ~ok
    THEN Res(db, "none", Propagated(stmt))
    ELSE Res(d2, "none", Returned(ret))

\* conn.commit() after the statements of a call that did not raise.
PgCommit(r) == IF r.raised THEN r ELSE [r EXCEPT !.tx = "none"]

\* ----------------------------------------------------------- create_table
\* conn.execute(sql_query): CREATE TABLE k (cols).  The embedded adapter lets
\* the error propagate.
DuckCreateTable(k, cols, fail) ==
    DuckExec("create", ~db[k].ex /\ ~fail, [db EXCEPT ![k] = MkTable(cols, <<>>)], FALSE)

PgCreateTableSwallow(k, cols, fail) ==
    LET r == PgExec("create", ~db[k].ex /\ ~fail, [db EXCEPT ![k] = MkTable(cols, <<>>)], FALSE)
    IN  [r EXCEPT !.errored = r.raised, !.raised = FALSE]

\* The networked adapter logs the error and re-raises it.
PgCreateTable(k, cols, fail) ==
    LET r == PgExec("create", ~db[k].ex /\ ~fail, [db EXCEPT ![k] = MkTable(cols, <<>>)], FALSE)
    IN  [r EXCEPT !.errored = r.raised]

\* The CREATE TABLE files the model runs: NameT with either column set in the
\* default schema, and a table of the same name in the other schema.
SqlFiles ==
    { [table |-> <<DefaultSchema, NameT>>, cols |-> {"a"}],
      [table |-> <<DefaultSchema, NameT>>, cols |-> {"a", "b"}],
      [table |-> <<"aux", NameT>>, cols |-> {"a"}] }

create_table(k, cols, fail) ==
    /\ pc = "idle" /\ connOpen
    /\ Return("create_table", k[2],
              IF typedb = "duckdb" THEN DuckCreateTable(k, cols, fail)
                                   ELSE PgCreateTable(k, cols, fail),
              <<>>)

\* --------------------------------------------------------- is_table_exist
\* SELECT COUNT(*) FROM information_schema.tables WHERE table_name = '{table}'
DuckIsTableExist(d, qp) ==
    Cardinality({k \in InfoSchemaTables(d) : k[2] = qp.table}) # 0

\* SELECT EXISTS (... WHERE table_schema = :schema AND table_name = :table)
PgIsTableExist(d, qp) ==
    \E k \in InfoSchemaTables(d) : k[1] = qp.schema /\ k[2] = qp.table

is_table_exist(qp) ==
    /\ pc = "idle" /\ connOpen
    /\ Return("is_table_exist", qp.table,
              IF typedb = "duckdb"
              THEN DuckExec("query", TRUE, db, DuckIsTableExist(db, qp))
              ELSE PgExec("query", TRUE, db, PgIsTableExist(db, qp)),
              <<>>)

\* ---------------------------------------------------------- load_csv_file
\* The CSV files the model loads: a stem and the identities of its data rows.
CsvRowSets == {<<1>>, <<1, 2>>}
CsvFiles == [stem : Stems, rows : CsvRowSets]

\* ColumnsManagement(csv_file, schema_df).df: the CSV's rows under the target
\* table's columns.
Reconcile(rows, cols) == [i \in 1..Len(rows) |-> [id |-> rows[i], nn |-> cols]]

DuckLoadCsvFileCreates(csv, fail) ==
    IF Resolve(csv.stem) \in TableIds /\ ~Resolves(db, csv.stem)
    THEN Res([db EXCEPT ![Resolve(csv.stem)] = MkTable({"a"}, Reconcile(csv.rows, {"a"}))], "none", Quiet)
    ELSE Res(db, "none", Warned)

DuckLoadCsvFileRefills(csv, fail) ==
    LET qp == [schema |-> schema, table |-> csv.stem]
        k == Resolve(csv.stem)
    IN  IF ~DuckIsTableExist(db, qp) THEN Res(db, "none", Warned)
        ELSE IF ~Resolves(db, csv.stem) THEN Res(db, "none", Propagated("describe"))
        ELSE IF fail THEN Res(db, "none", Swallowed("insert"))
        ELSE Res([db EXCEPT ![k].rows = @ \o Reconcile(csv.rows, db[k].cols)], "none", Quiet)

DuckLoadCsvFileRaises(csv, fail) ==
    LET qp == [schema |-> schema, table |-> csv.stem]
        k == Resolve(csv.stem)
    IN  IF ~DuckIsTableExist(db, qp) THEN Res(db, "none", Warned)
        ELSE IF ~Resolves(db, csv.stem) THEN Res(db, "none", Propagated("describe"))
        ELSE IF Len(db[k].rows) > 0 THEN Res(db, "none", Quiet)
        ELSE IF fail THEN Res(db, "none", Propagated("insert"))
        ELSE Res([db EXCEPT ![k].rows = Reconcile(csv.rows, db[k].cols)], "none", Quiet)

\* The embedded adapter: existence by name in any schema, DESCRIBE and INSERT
\* on the unqualified name; rows are inserted only into an empty table, and a
\* duckdb.Error of the INSERT is logged and swallowed.
DuckLoadCsvFile(csv, fail) ==
    LET qp == [schema |-> schema, table |-> csv.stem]
        k == Resolve(csv.stem)
    IN  IF ~DuckIsTableExist(db, qp) THEN Res(db, "none", Warned)
        ELSE IF ~Resolves(db, csv.stem) THEN Res(db, "none", Propagated("describe"))
        ELSE IF Len(db[k].rows) > 0 THEN Res(db, "none", Quiet)
        ELSE IF fail THEN Res(db, "none", Swallowed("insert"))
        ELSE Res([db EXCEPT ![k].rows = Reconcile(csv.rows, db[k].cols)], "none", Quiet)

PgBulkInsertReplaces(d, k, df, n) == [d EXCEPT ![k].rows = SubSeq(df, 1, n)]

\* df.to_sql(..., if_exists="append") after its first n rows.
PgBulkInsert(d, k, df, n) == [d EXCEPT ![k].rows = @ \o SubSeq(df, 1, n)]

\* trans.rollback(): the connection is back at the committed catalog.
PgRollback(d) == Snapshot

\* Where a load_csv_file call is made to fail: nowhere, in the schema
\* introspection, in the reconciliation of the CSV, or in the insert.
LoadFaults == {"none", "schema", "csv", "insert"}

PgLoadCsvFilePropagates(csv, fail, n) ==
    LET qp == [schema |-> schema, table |-> csv.stem]
        k == <<schema, csv.stem>>
    IN  IF txState = "failed" THEN Res(db, "failed", Propagated("query"))
        ELSE IF ~PgIsTableExist(db, qp) THEN Res(db, "active", Warned)
        ELSE IF fail = "schema" THEN Res(db, "failed", Propagated("schema"))
        ELSE IF fail = "csv" THEN Res(db, "active", Propagated("csv"))
        ELSE LET df == Reconcile(csv.rows, db[k].cols)
             IN  IF fail = "insert"
                 THEN Res(PgRollback(PgBulkInsert(db, k, df, n)), "none", LoggedAndRaised("insert"))
                 ELSE Res(PgBulkInsert(db, k, df, Len(df)), "none", Quiet)

\* The networked adapter: every exception is caught by the outer handler and
\* logged.  The existence query fails on an aborted transaction; a failing
\* introspection aborts the transaction the query began; a failing bulk
\* insert is rolled back after its first n rows, logged and raised again to
\* the outer handler.
PgLoadCsvFile(csv, fail, n) ==
    LET qp == [schema |-> schema, table |-> csv.stem]
        k == <<schema, csv.stem>>
    IN  IF txState = "failed" THEN Res(db, "failed", Swallowed("query"))
        ELSE IF ~PgIsTableExist(db, qp) THEN Res(db, "active", Warned)
        ELSE IF fail = "schema" THEN Res(db, "failed", Swallowed("schema"))
        ELSE IF fail = "csv" THEN Res(db, "active", Swallowed("csv"))
        ELSE LET df == Reconcile(csv.rows, db[k].cols)
             IN  IF fail = "insert"
                 THEN Res(PgRollback(PgBulkInsert(db, k, df, n)), "none", Swallowed("insert"))
                 ELSE Res(PgBulkInsert(db, k, df, Len(df)), "none", Quiet)

\* trans = conn.get_transaction() ("get"), then trans.commit() or
\* trans.rollback().
PgLoadCsvLog(csv, fail) ==
    IF txState = "failed" THEN <<>>
    ELSE IF ~PgIsTableExist(db, [schema |-> schema, table |-> csv.stem]) THEN <<>>
    ELSE IF fail \in {"schema", "csv"} THEN <<>>
    ELSE <<"get">> \o (IF fail = "insert" THEN <<"rollback">> ELSE <<"commit">>)

\* The rows the call may add fit the model's tables.
CsvFits(csv) ==
    \A k \in TableIds : k[2] = csv.stem => Len(db[k].rows) + Len(csv.rows) <= MaxRows

load_csv_file(csv, fail, n) ==
    /\ pc = "idle" /\ connOpen
    /\ CsvFits(csv)
    /\ n <= Len(csv.rows)
    /\ typedb = "duckdb" => fail \in {"none", "insert"}
    /\ (typedb = "duckdb" \/ fail # "insert") => n = 0
    /\ Return("load_csv_file", csv.stem,
              IF typedb = "duckdb" THEN DuckLoadCsvFile(csv, fail = "insert")
                                   ELSE PgLoadCsvFile(csv, fail, n),
              IF typedb = "duckdb" THEN <<>> ELSE PgLoadCsvLog(csv, fail))

\* --------------------------------------------------------- truncate_table
\* TRUNCATE TABLE {table_name}; the networked adapter does not commit.
DuckTruncateTable(d, n) ==
    DuckExec("truncate", Resolves(d, n), [d EXCEPT ![Resolve(n)].rows = <<>>], FALSE)

PgTruncateTable(d, n) ==
    PgExec("truncate", Resolves(d, n), [d EXCEPT ![Resolve(n)].rows = <<>>], FALSE)

truncate_table(n) ==
    /\ pc = "idle" /\ connOpen
    /\ Return("truncate_table", n,
              IF typedb = "duckdb" THEN DuckTruncateTable(db, n) ELSE PgTruncateTable(db, n),
              <<>>)

\* ---------------------------------------------------- copy_table_into_new
DuckCopyTableIntoNewNoData(src, tgt) ==
    DuckExec("create_as", Resolves(db, src) /\ ~Resolves(db, tgt) /\ Resolve(tgt) \in TableIds,
             [db EXCEPT ![Resolve(tgt)] = MkTable(db[Resolve(src)].cols, <<>>)], FALSE)

\* CREATE TABLE {target} AS SELECT * FROM {source}
DuckCopyTableIntoNew(src, tgt) ==
    DuckExec("create_as", Resolves(db, src) /\ ~Resolves(db, tgt) /\ Resolve(tgt) \in TableIds,
             [db EXCEPT ![Resolve(tgt)] = db[Resolve(src)]], FALSE)

\* CREATE TABLE {target} AS TABLE {source} WITH DATA; conn.commit()
PgCopyTableIntoNew(src, tgt) ==
    PgCommit(PgExec("create_as", Resolves(db, src) /\ ~Resolves(db, tgt) /\ Resolve(tgt) \in TableIds,
                    [db EXCEPT ![Resolve(tgt)] = db[Resolve(src)]], FALSE))

CopyTableIntoNew(src, tgt) ==
    IF typedb = "duckdb" THEN DuckCopyTableIntoNew(src, tgt) ELSE PgCopyTableIntoNew(src, tgt)

\* ----------------------------------------------------------- append_table
DuckAppendTableDropsRows(src, tgt) ==
    DuckExec("insert",
             /\ Resolves(db, src) /\ Resolves(db, tgt)
             /\ Cardinality(db[Resolve(src)].cols) = Cardinality(db[Resolve(tgt)].cols),
             db, FALSE)

\* INSERT INTO {target} SELECT * FROM {source}: by position, so the two
\* tables must have as many columns.
DuckAppendTable(src, tgt) ==
    DuckExec("insert",
             /\ Resolves(db, src) /\ Resolves(db, tgt)
             /\ Cardinality(db[Resolve(src)].cols) = Cardinality(db[Resolve(tgt)].cols),
             [db EXCEPT ![Resolve(tgt)].rows = @ \o Project(db[Resolve(src)].rows, db[Resolve(tgt)].cols)],
             FALSE)

\* SELECT column_name FROM information_schema.columns WHERE table_name = :name
PgColumnsOf(d, n) == UNION {d[k].cols : k \in {j \in InfoSchemaTables(d) : j[2] = n}}

\* INSERT INTO {target} (common) SELECT common FROM {source}; conn.commit()
PgAppendTable(src, tgt) ==
    LET common == PgColumnsOf(db, src) \cap PgColumnsOf(db, tgt)
    IN  PgCommit(PgExec("insert",
                        /\ Resolves(db, src) /\ Resolves(db, tgt)
                        /\ common # {}
                        /\ common \subseteq db[Resolve(src)].cols
                        /\ common \subseteq db[Resolve(tgt)].cols,
                        [db EXCEPT ![Resolve(tgt)].rows = @ \o Project(db[Resolve(src)].rows, common)],
                        FALSE))

AppendTable(src, tgt) ==
    IF typedb = "duckdb" THEN DuckAppendTable(src, tgt) ELSE PgAppendTable(src, tgt)

\* The rows an append may add fit the model's tables.
AppendFits(src, tgt) ==
    Len(db[Resolve(src)].rows) + Len(db[Resolve(tgt)].rows) <= MaxRows

\* ------------------------------------------------------------- drop_table
\* DROP TABLE IF EXISTS "{schema}"."{table}" (the model has no views)
DuckDropTable(qp, fail) ==
    DuckExec("drop", ~fail,
             [k \in TableIds |-> IF k = <<qp.schema, qp.table>> THEN NoTable ELSE db[k]], FALSE)

\* DROP TABLE IF EXISTS {table} CASCADE, not committed
PgDropTable(d, qp) == [k \in TableIds |-> IF k = Resolve(qp.table) THEN NoTable ELSE d[k]]

\* The embedded adapter's duckdb_drop_table as a call of its own: reset_histo,
\* its one caller here, never reaches it.  The networked adapter's drop_table
\* is reached through copy_table_from_staging and reset_histo.
duckdb_drop_table(n, fail) ==
    /\ pc = "idle" /\ connOpen
    /\ typedb = "duckdb"
    /\ Return("duckdb_drop_table", n, DuckDropTable([schema |-> schema, table |-> n], fail), <<>>)

\* ------------------------------------------------------------ reset_histo
\* table_schema = :schema AND table_name LIKE 'z%'
HistoTables(d) == {k[2] : k \in {j \in InfoSchemaTables(d) : j[1] = schema /\ j[2][1] = "z"}}

\* drop_table for each of the listed names.
PgDropAll(d, names) ==
    [k \in TableIds |-> IF \E n \in names : PgDropTable(d, [schema |-> schema, table |-> n])[k] # d[k]
                         THEN NoTable ELSE d[k]]

\* The embedded adapter's module does not import `text`: building the query
\* raises NameError before any statement runs.
DuckResetHisto(fail) == Res(db, "none", Propagated("name"))

\* The networked adapter drops each listed table through drop_table and
\* commits; a failure is logged and raised again.
PgResetHisto(fail) ==
    IF txState = "failed" THEN Res(db, "failed", Propagated("query"))
    ELSE IF HistoTables(db) = {} THEN Res(db, "active", Quiet)
    ELSE IF fail THEN Res(db, "failed", LoggedAndRaised("drop"))
    ELSE Res(PgDropAll(db, HistoTables(db)), "none", Quiet)

reset_histo(fail) ==
    /\ pc = "idle" /\ connOpen
    /\ Return("reset_histo", NameNone,
              IF typedb = "duckdb" THEN DuckResetHisto(fail) ELSE PgResetHisto(fail),
              <<>>)

\* ---------------------------------------------------------- historization
\* The archive of table n is HistoName(n).  Historizing n appends n to its
\* archive when the archive exists, copies n into a new archive otherwise,
\* and then truncates n; a call that raises ends the sequence.
IsTableExist(qp) ==
    IF typedb = "duckdb" THEN DuckIsTableExist(db, qp) ELSE PgIsTableExist(db, qp)

TruncateTable(n) ==
    IF typedb = "duckdb" THEN DuckTruncateTable(db, n) ELSE PgTruncateTable(db, n)

\* A step of an operation in progress: the call r is made and the operation
\* moves to `to`, or ends when r raised.
Step(op, r, to) ==
    /\ db' = r.db
    /\ txState' = r.tx
    /\ saved' = SavedAfter(r.db, r.tx)
    /\ last' = Outcome(op, frame.src, r)
    /\ pc' = IF r.raised THEN "idle" ELSE to
    /\ UNCHANGED <<orchVars, dbtVars, typedb, schema, stagingCfg, staging, connOpen, tmpOpen, frame, pre, txLog>>

historize(n) ==
    /\ pc = "idle" /\ connOpen
    /\ txState # "failed"
    /\ AppendFits(n, HistoName(n))
    /\ pre' = db
    /\ frame' = [how |-> IF IsTableExist([schema |-> schema, table |-> HistoName(n)])
                         THEN "append" ELSE "copy",
                 src |-> n, tgt |-> HistoName(n), df |-> NoTable]
    /\ pc' = "histo_fill"
    /\ txState' = IF typedb = "duckdb" THEN "none" ELSE "active"
    /\ saved' = Snapshot
    /\ last' = Outcome("historize", n, Quiet)
    /\ txLog' = <<>>
    /\ UNCHANGED <<orchVars, dbtVars, typedb, schema, stagingCfg, staging, db, connOpen, tmpOpen>>

histo_fill ==
    /\ pc = "histo_fill"
    /\ Step("historize",
            IF frame.how = "append" THEN AppendTable(frame.src, frame.tgt)
                                    ELSE CopyTableIntoNew(frame.src, frame.tgt),
            "histo_truncate")

histo_truncate ==
    /\ pc = "histo_truncate"
    /\ Step("historize", TruncateTable(frame.src), "idle")

\* ------------------------------------------------ copy_table_from_staging
CopyFrame(st, tgt, df) == [how |-> "copy_staging", src |-> st, tgt |-> tgt, df |-> df]

\* The call begins.  Without a staging configuration it logs an error and
\* returns.  Otherwise a connection to the staging database is opened: by
\* duckdb.connect (embedded), by pd.read_sql on the staging engine (networked).
copy_table_from_staging(st, tgt) ==
    /\ pc = "idle" /\ connOpen /\ tmpOpen = 0
    /\ pre' = db
    /\ txLog' = <<>>
    /\ frame' = CopyFrame(st, tgt, NoTable)
    /\ last' = Outcome("copy_table_from_staging", st,
                       IF stagingCfg THEN Quiet ELSE [Quiet EXCEPT !.errored = TRUE])
    /\ pc' = IF stagingCfg THEN "copy_read" ELSE "idle"
    /\ tmpOpen' = IF stagingCfg THEN tmpOpen + 1 ELSE tmpOpen
    /\ UNCHANGED <<orchVars, dbtVars, typedb, schema, stagingCfg, staging, db, saved, txState, connOpen>>

StagingHas(st) == st \in DOMAIN staging /\ staging[st].ex

TmpAfterReadLeak(n, ok) == n

\* The connections left open by the read of the staging table.  The networked
\* adapter's pd.read_sql closes its connection on every path; the embedded
\* adapter calls staging_conn.close() only after a successful read.
TmpAfterRead(n, ok) == IF typedb = "duckdb" /\ ~ok THEN n ELSE n - 1

\* SELECT * FROM {staging_table_name}: the dataframe is read and the staging
\* connection closed; a missing table raises out of the call.
copy_read ==
    /\ pc = "copy_read"
    /\ tmpOpen' = TmpAfterRead(tmpOpen, StagingHas(frame.src))
    /\ IF StagingHas(frame.src)
       THEN /\ frame' = CopyFrame(frame.src, frame.tgt, staging[frame.src])
            /\ pc' = IF typedb = "duckdb" THEN "copy_create" ELSE "copy_drop"
            /\ last' = last
       ELSE /\ frame' = frame
            /\ pc' = "idle"
            /\ last' = Outcome("copy_table_from_staging", frame.src, Propagated("read"))
    /\ UNCHANGED <<orchVars, dbtVars, typedb, schema, stagingCfg, staging, db, saved, txState, connOpen, pre, txLog>>

\* The staging connection a failed read left open is closed when the caller
\* lets go of the exception (and with it of the call's locals).
release_staging_conn ==
    /\ pc = "idle" /\ tmpOpen > 0
    /\ tmpOpen' = 0
    /\ UNCHANGED <<orchVars, dbtVars, typedb, schema, stagingCfg, staging, db, saved, txState, connOpen,
                   pc, frame, pre, txLog, last>>

\* CREATE TABLE IF NOT EXISTS {db_table_name} AS SELECT * FROM staging_data:
\* nothing is written when the table exists; any exception is logged and
\* swallowed.
DuckCopyCreate(tgt, df, fail) ==
    IF fail THEN Res(db, "none", Swallowed("create_as"))
    ELSE IF Resolves(db, tgt) THEN Res(db, "none", Quiet)
    ELSE Res([db EXCEPT ![Resolve(tgt)] = df], "none", Quiet)

copy_create(fail) ==
    /\ pc = "copy_create"
    /\ Step("copy_table_from_staging", DuckCopyCreate(frame.tgt, frame.df, fail), "idle")

\* trans = conn.begin(); the existing target is dropped; trans.commit().
\* conn.begin() raises when the connection already holds a transaction.  A
\* failure of the drop is rolled back, logged and raised again.
PgCopyDrop(tgt, fail) ==
    LET qp == [schema |-> schema, table |-> tgt]
    IN  IF txState # "none" THEN Res(db, txState, Propagated("begin"))
        ELSE IF PgIsTableExist(db, qp) /\ fail THEN Res(db, "none", LoggedAndRaised("drop"))
        ELSE IF PgIsTableExist(db, qp) THEN Res(PgDropTable(db, qp), "none", Quiet)
        ELSE Res(db, "none", Quiet)

PgCopyDropLog(tgt, fail) ==
    IF txState # "none" THEN <<>>
    ELSE IF PgIsTableExist(db, [schema |-> schema, table |-> tgt]) /\ fail
         THEN <<"begin", "rollback">>
         ELSE <<"begin", "commit">>

\* After the commit df.to_sql opens a connection of the target engine.
copy_drop(fail) ==
    /\ pc = "copy_drop"
    /\ LET r == PgCopyDrop(frame.tgt, fail)
       IN  /\ db' = r.db
           /\ txState' = r.tx
           /\ saved' = SavedAfter(r.db, r.tx)
           /\ last' = Outcome("copy_table_from_staging", frame.src, r)
           /\ pc' = IF r.raised THEN "idle" ELSE "copy_to_sql"
           /\ tmpOpen' = IF r.raised THEN tmpOpen ELSE tmpOpen + 1
    /\ txLog' = PgCopyDropLog(frame.tgt, fail)
    /\ UNCHANGED <<orchVars, dbtVars, typedb, schema, stagingCfg, staging, connOpen, frame, pre>>

\* df.to_sql(db_table_name, engine_target, if_exists='replace', schema=...)
\* in a transaction of its own connection: the table becomes the dataframe,
\* or nothing is written.  On failure the handler calls trans.rollback() on
\* the transaction committed above (which changes nothing), logs and raises.
PgCopyToSql(tgt, df, fail) ==
    IF fail THEN Res(db, "none", LoggedAndRaised("to_sql"))
    ELSE Res([db EXCEPT ![<<schema, tgt>>] = df], "none", Quiet)

copy_to_sql(fail) ==
    /\ pc = "copy_to_sql"
    /\ LET r == PgCopyToSql(frame.tgt, frame.df, fail)
       IN  /\ db' = r.db
           /\ txState' = r.tx
           /\ saved' = SavedAfter(r.db, r.tx)
           /\ last' = Outcome("copy_table_from_staging", frame.src, r)
    /\ pc' = "idle"
    /\ tmpOpen' = tmpOpen - 1
    /\ txLog' = IF fail THEN txLog \o <<"rollback">> ELSE txLog
    /\ UNCHANGED <<orchVars, dbtVars, typedb, schema, stagingCfg, staging, connOpen, frame, pre>>

Next ==
    \/ connect
    \/ close
    \/ \E f \in SqlFiles, fail \in BOOLEAN : create_table(f.table, f.cols, fail)
    \/ \E n \in Names : is_table_exist([schema |-> schema, table |-> n])
    \/ \E csv \in CsvFiles, fail \in LoadFaults, n \in 0..MaxRows : load_csv_file(csv, fail, n)
    \/ \E n \in Names : truncate_table(n)
    \/ \E n \in Names, fail \in BOOLEAN : duckdb_drop_table(n, fail)
    \/ \E fail \in BOOLEAN : reset_histo(fail)
    \/ historize(NameT)
    \/ histo_fill
    \/ histo_truncate
    \/ \E st \in Names : copy_table_from_staging(st, NameT)
    \/ copy_read
    \/ release_staging_conn
    \/ \E fail \in BOOLEAN : copy_create(fail)
    \/ \E fail \in BOOLEAN : copy_drop(fail)
    \/ \E fail \in BOOLEAN : copy_to_sql(fail)

\* ------------------------------------------------------------- properties
Done(op) == pc = "idle" /\ last.op = op
\* No table of that name in any schema.
NoTableNamed(d, n) == \A k \in InfoSchemaTables(d) : k[2] # n
OpenConns == (IF connOpen THEN 1 ELSE 0) + tmpOpen

\* C1: is_table_exist returns true if and only if the table is in the catalog
\* under the schema of query_params, in both adapters.
C1_ExistIffInSchema ==
    (Done("is_table_exist") /\ ~last.raised) => (last.ret <=> db[<<schema, last.tbl>>].ex)

\* C2: historizing a table whose archive exists (append_table, then
\* truncate_table) leaves the archive holding its previous rows followed by
\* every row the table held, and the table existing, with its columns, empty.
C2_HistorizeAppends ==
    (Done("historize") /\ frame.how = "append" /\ pre[Resolve(frame.tgt)].ex /\ ~last.raised)
    => /\ db[Resolve(frame.tgt)].ex
       /\ db[Resolve(frame.tgt)].cols = pre[Resolve(frame.tgt)].cols
       /\ db[Resolve(frame.tgt)].rows =
            pre[Resolve(frame.tgt)].rows
              \o Project(pre[Resolve(frame.src)].rows, pre[Resolve(frame.tgt)].cols)
       /\ Ids(db[Resolve(frame.tgt)].rows) =
            Ids(pre[Resolve(frame.tgt)].rows) \o Ids(pre[Resolve(frame.src)].rows)
       /\ db[Resolve(frame.src)] = MkTable(pre[Resolve(frame.src)].cols, <<>>)

C2_Witness ==
    /\ Done("historize") /\ frame.how = "append" /\ ~last.raised
    /\ Len(pre[Resolve(frame.tgt)].rows) > 0
    /\ Len(pre[Resolve(frame.src)].rows) > 0

\* C3: historizing a table that has no archive (copy_table_into_new, then
\* truncate_table) creates the archive with the table's rows and columns and
\* leaves the table existing and empty; when the truncation is about to run
\* the archive already holds the rows.
C3_HistorizeCopies ==
    /\ (pc = "histo_truncate" /\ frame.how = "copy")
       => /\ db[Resolve(frame.tgt)] = pre[Resolve(frame.src)]
          /\ db[Resolve(frame.src)] = pre[Resolve(frame.src)]
          /\ ~pre[Resolve(frame.tgt)].ex
    /\ (Done("historize") /\ frame.how = "copy" /\ ~last.raised)
       => /\ db[Resolve(frame.tgt)] = pre[Resolve(frame.src)]
          /\ pre[Resolve(frame.src)].ex
          /\ db[Resolve(frame.src)] = MkTable(pre[Resolve(frame.src)].cols, <<>>)

C3_Witness ==
    /\ Done("historize") /\ frame.how = "copy" /\ ~last.raised
    /\ Len(pre[Resolve(frame.src)].rows) > 0

\* C4: load_csv_file with a CSV whose stem names no table, on a connection
\* whose transaction is not aborted, warns, returns normally and changes
\* neither the set of tables nor any table's rows.
C4_LoadMissingTableNoOp ==
    [][(/\ last'.op = "load_csv_file" /\ txState # "failed"
        /\ NoTableNamed(db, last'.tbl)
        /\ \E csv \in CsvFiles :
              /\ csv.stem = last'.tbl
              /\ \/ \E fail \in LoadFaults : load_csv_file(csv, fail, 0)
                 \/ \E n \in 1..Len(csv.rows) : load_csv_file(csv, "insert", n))
       => (db' = db /\ saved' = saved /\ last'.warned /\ ~last'.raised /\ ~last'.errored)]_vars

C4_Witness ==
    /\ Done("load_csv_file") /\ last.warned /\ NoTableNamed(db, last.tbl)
    /\ last.tbl = NameT /\ InfoSchemaTables(db) # {}

\* C5: after a successful copy_table_from_staging the target table has the
\* staging table's row count and column set, whatever the target held before.
C5_CopyMatchesStaging ==
    (Done("copy_table_from_staging") /\ stagingCfg
       /\ ~last.raised /\ ~last.errored /\ last.failed = "none")
    => /\ db[<<schema, frame.tgt>>].ex
       /\ Len(db[<<schema, frame.tgt>>].rows) = Len(staging[frame.src].rows)
       /\ db[<<schema, frame.tgt>>].cols = staging[frame.src].cols

\* C6: when the networked load_csv_file's bulk insert fails, the target table
\* holds exactly the rows it held before the call, and the failure is logged.
C6_FailedInsertRestoresTable ==
    [][\A csv \in CsvFiles :
         (/\ typedb = "postgres" /\ last'.op = "load_csv_file" /\ last'.failed = "insert"
          /\ \E n \in 0..MaxRows : load_csv_file(csv, "insert", n))
         => (db'[<<schema, csv.stem>>] = db[<<schema, csv.stem>>] /\ last'.errored)]_vars

C9_AtMostOneConnection == OpenConns <= 1

\* C9, amended: at most one persistent and one temporary connection are open
\* at any time, and the networked adapter has closed the temporary one when
\* copy_table_from_staging ends.
C9_AtMostTwoConnections ==
    /\ OpenConns <= 2
    /\ tmpOpen <= 1
    /\ (typedb = "postgres" /\ pc = "idle") => tmpOpen = 0

C9_Witness == pc = "copy_read" /\ connOpen /\ OpenConns = 2

\* C10: in load_csv_file and copy_table_from_staging a transaction taken up
\* is ended exactly once, and never rolled back after its commit.
C10_TransactionsPaired ==
    /\ \A i \in 1..Len(txLog) : \A j \in 1..Len(txLog) :
         (i < j /\ txLog[i] = "commit") => txLog[j] # "rollback"
    /\ pc = "idle" =>
         Cardinality({i \in 1..Len(txLog) : txLog[i] \in {"begin", "get"}})
           = Cardinality({i \in 1..Len(txLog) : txLog[i] \in {"commit", "rollback"}})

\* C19: the embedded adapter's load_csv_file changes nothing but the rows of
\* the table its CSV names, and those only when the table exists and is empty:
\* a table holding at least one row keeps its rows.  After a call whose INSERT
\* did not fail, loading the same CSV again leaves the database as it is.
C19_LoadOnlyIntoEmptyTable ==
    [][\A csv \in CsvFiles :
         (/\ typedb = "duckdb" /\ last'.op = "load_csv_file" /\ last'.tbl = csv.stem
          /\ \E fail \in {"none", "insert"} : load_csv_file(csv, fail, 0))
         => LET k == Resolve(csv.stem)
            IN  /\ \A j \in TableIds \ {k} : db'[j] = db[j]
                /\ k \in TableIds =>
                     /\ db'[k].ex = db[k].ex /\ db'[k].cols = db[k].cols
                     /\ db'[k].rows # db[k].rows =>
                          /\ db[k].ex /\ db[k].rows = <<>>
                          /\ Ids(db'[k].rows) = csv.rows
                     /\ (db[k].ex /\ Len(db[k].rows) > 0) => db'[k].rows = db[k].rows
                /\ last'.failed = "none" =>
                     \A again \in BOOLEAN : (DuckLoadCsvFile(csv, again).db)' = db']_vars

\* A load has just returned on a table that holds the one row of an earlier
\* CSV, where loading a two-row CSV would change nothing.
C19_Witness ==
    /\ Done("load_csv_file") /\ typedb = "duckdb" /\ last.tbl = NameT
    /\ last.failed = "none" /\ ~last.warned /\ ~last.raised
    /\ Ids(db[Resolve(NameT)].rows) = <<1>>
    /\ DuckLoadCsvFile([stem |-> NameT, rows |-> <<1, 2>>], FALSE).db = db

\* C20: a networked load_csv_file that succeeds appends the CSV's rows after
\* the rows the table held, whatever their number: the row count grows by the
\* number of CSV rows, and loading the same CSV once more adds them again.
C20_NetworkedLoadAppends ==
    [][\A csv \in CsvFiles :
         (/\ typedb = "postgres" /\ last'.op = "load_csv_file" /\ last'.tbl = csv.stem
          /\ last'.failed = "none" /\ ~last'.warned
          /\ load_csv_file(csv, "none", 0))
         => LET k == <<schema, csv.stem>>
            IN  /\ Len(db'[k].rows) = Len(db[k].rows) + Len(csv.rows)
                /\ Ids(db'[k].rows) = Ids(db[k].rows) \o csv.rows
                /\ Len((PgLoadCsvFile(csv, "none", 0).db)'[k].rows)
                     = Len(db[k].rows) + 2 * Len(csv.rows)]_vars

\* The same one-row CSV has been loaded twice into the networked table.
C20_Witness ==
    /\ Done("load_csv_file") /\ typedb = "postgres" /\ last.tbl = NameT
    /\ last.failed = "none" /\ ~last.warned
    /\ Ids(db[<<schema, NameT>>].rows) = <<1, 1>>

\* C21: the networked adapter's load_csv_file never lets an exception reach
\* its caller: whatever fails (the existence query, the introspection, the
\* reconciliation of the CSV, the bulk insert re-raised after its rollback) is
\* logged as an error and the call returns, leaving the adapter ready for the
\* next file.
C21_NetworkedLoadNeverRaises ==
    (typedb = "postgres" /\ last.op = "load_csv_file")
    => /\ ~last.raised
       /\ last.failed # "none" => last.errored
       /\ pc = "idle" /\ connOpen
       /\ \E csv \in CsvFiles : ENABLED load_csv_file(csv, "none", 0)

\* A bulk insert has failed on an existing table, was rolled back and logged,
\* and the call returned.
C21_Witness ==
    /\ Done("load_csv_file") /\ typedb = "postgres" /\ last.tbl = NameT
    /\ last.failed = "insert" /\ last.errored /\ ~last.raised
    /\ txLog = <<"get", "rollback">>

\* C22: when the embedded adapter's INSERT into an existing empty table fails,
\* the error is logged, the call returns, and the table still exists and is
\* still empty.
C22_FailedInsertSwallowed ==
    [][\A csv \in CsvFiles :
         (/\ typedb = "duckdb" /\ last'.op = "load_csv_file" /\ last'.tbl = csv.stem
          /\ Resolves(db, csv.stem) /\ db[Resolve(csv.stem)].rows = <<>>
          /\ load_csv_file(csv, "insert", 0))
         => /\ last'.failed = "insert" /\ last'.errored /\ ~last'.raised
            /\ db'[Resolve(csv.stem)].ex /\ db'[Resolve(csv.stem)].rows = <<>>
            /\ db' = db]_vars

\* The INSERT of a CSV has just failed on the empty table NameT.
C22_Witness ==
    /\ Done("load_csv_file") /\ typedb = "duckdb" /\ last.tbl = NameT
    /\ last.failed = "insert" /\ last.errored /\ ~last.raised
    /\ db[Resolve(NameT)].ex /\ db[Resolve(NameT)].rows = <<>>

\* C23: a networked copy_table_from_staging that raises leaves the target
\* table as it was when the call began: a target dropped by the call is back
\* with its previous rows.
C23_FailedCopyRestoresTarget ==
    (Done("copy_table_from_staging") /\ typedb = "postgres" /\ stagingCfg /\ last.raised)
    => db[<<schema, frame.tgt>>] = pre[<<schema, frame.tgt>>]

\* ------------------------------------------- the historization reset alone
\* The CREATE TABLE files of a database with a table whose name begins with 'z'.
SqlFilesReset ==
    { [table |-> <<DefaultSchema, NameT>>, cols |-> {"a"}],
      [table |-> <<DefaultSchema, NameZone>>, cols |-> {"a"}] }

NextReset ==
    \/ connect
    \/ \E f \in SqlFilesReset : create_table(f.table, f.cols, FALSE)
    \/ \E csv \in CsvFiles : load_csv_file(csv, "none", 0)
    \/ historize(NameT)
    \/ histo_fill
    \/ histo_truncate
    \/ \E fail \in BOOLEAN : reset_histo(fail)

SpecReset == Init /\ [][NextReset]_vars

\* The tables the CREATE TABLE files make, and the archives made of them.
OriginalNames == {NameT, NameZone}
IsArchive(k) == k[1] = schema /\ \E m \in OriginalNames : k[2] = HistoName(m)

\* C11: a successful reset_histo leaves no archive ('z' + a table's name) in
\* the adapter's schema, and leaves every other table, a table of its own
\* whose name begins with 'z' included, existing with its rows unchanged.
C11_ResetRemovesExactlyArchives ==
    [][(/\ last'.op = "reset_histo" /\ ~last'.raised
        /\ \E fail \in BOOLEAN : reset_histo(fail))
       => \A k \in TableIds :
            /\ IsArchive(k) => ~db'[k].ex
            /\ ~IsArchive(k) => db'[k] = db[k]]_vars

\* ------------------------------------------------- orchestration procedures
LocalProcs == {"local_staging_pipeline", "local_project_pipeline"}
AnaisProcs == {"anais_staging_pipeline", "anais_project_pipeline"}
Procs == LocalProcs \cup AnaisProcs
Envs == [csv : BOOLEAN, sql : BOOLEAN, stagingFile : BOOLEAN]
Call(fn, cmd, target) == [fn |-> fn, cmd |-> cmd, target |-> target]

\* A procedure is entered and its loader constructed: a local procedure's over
\* the embedded database file, which may hold tables from an earlier run, a
\* networked procedure's over the networked database.  The networked staging
\* procedure begins by downloading its input files.
InitOrch ==
    /\ proc \in Procs
    /\ AdapterInit([typedb |-> IF proc \in LocalProcs THEN "duckdb" ELSE "postgres",
                    schema |-> DefaultSchema, stagingCfg |-> TRUE])
    /\ opc = IF proc = "anais_staging_pipeline" THEN "sftp_download" ELSE "start"
    /\ env \in (IF proc \in LocalProcs THEN Envs ELSE {NoEnv})
    /\ filled \in (IF proc \in LocalProcs THEN BOOLEAN ELSE {FALSE})
    /\ loaderConn = FALSE
    /\ duckdb_empty = TRUE
    /\ calls = <<>>
    /\ errorLog = {}
    /\ exc = "none"
    /\ dbt = NoDbt

\* A step of the procedure: position, connection, calls, log, exception.
Go(to, conn, cs, errs, e) ==
    /\ opc' = to
    /\ loaderConn' = conn
    /\ calls' = calls \o cs
    /\ errorLog' = errorLog \cup errs
    /\ exc' = e
    /\ UNCHANGED <<adapterVars, dbtVars, proc, env>>

\* An exception raised in the try body reaches the caller after the finally
\* block; one raised after it leaves the procedure at once.
Raise(fn, raises) == IF raises THEN fn ELSE "none"
AfterCall(raises, to) == IF raises THEN "raised" ELSE to

\* sftp = SFTPSync(...); sftp.download_all(config["files_to_download"])
sftp_download(raises) ==
    /\ opc = "sftp_download"
    /\ Go(AfterCall(raises, "start"), loaderConn, <<Call("sftp_download", "", "")>>, {},
          Raise("sftp_download", raises))
    /\ UNCHANGED <<filled, duckdb_empty>>

\* loader.connect() / pg_loader.connect()
loader_connect ==
    /\ opc = "start"
    /\ Go(IF proc \in LocalProcs THEN "try" ELSE "anais_fill", TRUE, <<>>, {}, exc)
    /\ UNCHANGED <<filled, duckdb_empty>>

\* pg_loader.run(): no handler, an exception leaves the procedure at once
anais_run(raises) ==
    /\ opc = "anais_fill" /\ proc = "anais_staging_pipeline"
    /\ Go(AfterCall(raises, "anais_close"), loaderConn, <<Call("run", "", "")>>, {},
          Raise("run", raises))
    /\ UNCHANGED <<filled, duckdb_empty>>

\* pg_loader.close()
anais_close ==
    /\ opc = "anais_close"
    /\ Go("dbt_run", FALSE, <<Call("close", "", "")>>, {}, exc)
    /\ UNCHANGED <<filled, duckdb_empty>>

AfterCopyTableSkipsTool == "export_csv"
\* The networked project procedure goes from copy_table to the tool.
AfterCopyTable == "dbt_run"

\* pg_loader.copy_table(config["table_to_copy"])
anais_copy_table(raises) ==
    /\ opc = "anais_fill" /\ proc = "anais_project_pipeline"
    /\ Go(AfterCall(raises, AfterCopyTable), loaderConn, <<Call("copy_table", "", "")>>, {},
          Raise("copy_table", raises))
    /\ UNCHANGED <<filled, duckdb_empty>>

UseStaging == proc = "local_project_pipeline" /\ env.stagingFile
UseCsvEither == env.csv \/ env.sql
\* os.listdir(local_directory_input) and os.listdir(create_table_directory)
UseCsv == env.csv /\ env.sql

\* if os.path.isfile(staging path): ddb_loader.copy_table(...)
fill_copy_table(raises, fills) ==
    /\ opc = "try" /\ UseStaging
    /\ filled' = (filled \/ fills)
    /\ Go("finally", loaderConn, <<Call("copy_table", "", "")>>, {}, Raise("copy_table", raises))
    /\ UNCHANGED duckdb_empty

fill_run_despite_staging(raises, fills) ==
    /\ opc = "try" /\ UseCsv
    /\ filled' = (filled \/ fills)
    /\ Go("finally", loaderConn, <<Call("run", "", "")>>, {}, Raise("run", raises))
    /\ UNCHANGED duckdb_empty

\* (el)if os.listdir(input) and os.listdir(create_table_directory): loader.run()
fill_run(raises, fills) ==
    /\ opc = "try" /\ ~UseStaging /\ UseCsv
    /\ filled' = (filled \/ fills)
    /\ Go("finally", loaderConn, <<Call("run", "", "")>>, {}, Raise("run", raises))
    /\ UNCHANGED duckdb_empty

\* else: logger.error("Aucun moyen de remplir la base DuckDB ...")
fill_nothing ==
    /\ opc = "try" /\ ~UseStaging /\ ~UseCsv
    /\ Go("finally", loaderConn, <<>>, {"no_fill"}, exc)
    /\ UNCHANGED <<filled, duckdb_empty>>

IsDuckdbEmptyAlways(f) == TRUE
\* SELECT COUNT(*) FROM information_schema.tables WHERE table_schema NOT IN
\* ('pg_catalog', 'information_schema'); return result == 0
IsDuckdbEmpty(f) == ~f

\* finally: duckdb_empty = loader.is_duckdb_empty(), which closes self.conn
finally_is_duckdb_empty ==
    /\ opc = "finally"
    /\ duckdb_empty' = IsDuckdbEmpty(filled)
    /\ Go("finally_close", FALSE, <<Call("is_duckdb_empty", "", "")>>, {}, exc)
    /\ UNCHANGED filled

\* finally: loader.close(); a pending exception then leaves the procedure
finally_close ==
    /\ opc = "finally_close"
    /\ Go(IF exc # "none" THEN "raised" ELSE "loaded", FALSE, <<Call("close", "", "")>>, {}, exc)
    /\ UNCHANGED <<filled, duckdb_empty>>

\* else: logger.error("Base ... vide")
empty_database ==
    /\ opc = "loaded" /\ duckdb_empty
    /\ Go("done", loaderConn, <<>>, {"empty_db"}, exc)
    /\ UNCHANGED <<filled, duckdb_empty>>

\* if not duckdb_empty: dbt_exec("run", profile, "local", ...)
\* The target of dbt_exec("run", ...): "local" in the local procedures,
\* "anais" in the networked ones.
RunTarget == IF proc \in LocalProcs THEN "local" ELSE "anais"

dbt_exec_run(raises) ==
    /\ \/ opc = "loaded" /\ ~duckdb_empty
       \/ opc = "dbt_run"
    /\ Go(AfterCall(raises, "dbt_test"), loaderConn, <<Call("dbt_exec", "run", RunTarget)>>, {},
          Raise("dbt_exec", raises))
    /\ UNCHANGED <<filled, duckdb_empty>>

\* The target of dbt_exec("test", ...): "local" in local_project_pipeline,
\* "anais" in the three other procedures.
TestTarget == IF proc = "local_project_pipeline" THEN "local" ELSE "anais"

\* What follows the test: the export in the project procedures.
AfterTest ==
    IF proc = "local_project_pipeline" THEN "export_connect"
    ELSE IF proc = "anais_project_pipeline" THEN "sftp_init"
    ELSE "done"

\* dbt_exec("test", profile, target, ...)
dbt_exec_test(raises) ==
    /\ opc = "dbt_test"
    /\ Go(AfterCall(raises, AfterTest),
          loaderConn, <<Call("dbt_exec", "test", TestTarget)>>, {}, Raise("dbt_exec", raises))
    /\ UNCHANGED <<filled, duckdb_empty>>

\* sftp = SFTPSync(config["local_directory_input"], logger)
sftp_init(raises) ==
    /\ opc = "sftp_init"
    /\ Go(AfterCall(raises, "export_csv"), loaderConn, <<Call("sftp_init", "", "")>>, {},
          Raise("sftp_init", raises))
    /\ UNCHANGED <<filled, duckdb_empty>>

export_without_connect ==
    /\ opc = "export_connect"
    /\ Go("export_csv", loaderConn, <<>>, {}, exc)
    /\ UNCHANGED <<filled, duckdb_empty>>

\* ddb_loader.connect()
export_connect ==
    /\ opc = "export_connect"
    /\ Go("export_csv", TRUE, <<Call("connect", "", "")>>, {}, exc)
    /\ UNCHANGED <<filled, duckdb_empty>>

\* ddb_loader.export_csv(config["files_to_upload"], date=today)
export_csv(raises) ==
    /\ opc = "export_csv"
    /\ Go(AfterCall(raises, "export_close"), loaderConn, <<Call("export_csv", "", "")>>, {},
          Raise("export_csv", raises))
    /\ UNCHANGED <<filled, duckdb_empty>>

\* ddb_loader.close()
export_close ==
    /\ opc = "export_close"
    /\ Go("done", FALSE, <<Call("close", "", "")>>, {}, exc)
    /\ UNCHANGED <<filled, duckdb_empty>>

NextOrch ==
    \/ \E raises \in BOOLEAN : sftp_download(raises)
    \/ loader_connect
    \/ \E raises \in BOOLEAN : anais_run(raises)
    \/ anais_close
    \/ \E raises \in BOOLEAN : anais_copy_table(raises)
    \/ \E raises \in BOOLEAN : sftp_init(raises)
    \/ \E raises \in BOOLEAN, fills \in BOOLEAN : fill_copy_table(raises, fills)
    \/ \E raises \in BOOLEAN, fills \in BOOLEAN : fill_run(raises, fills)
    \/ fill_nothing
    \/ finally_is_duckdb_empty
    \/ finally_close
    \/ empty_database
    \/ \E raises \in BOOLEAN : dbt_exec_run(raises)
    \/ \E raises \in BOOLEAN : dbt_exec_test(raises)
    \/ export_connect
    \/ \E raises \in BOOLEAN : export_csv(raises)
    \/ export_close

Ended == opc \in {"done", "raised"}
Called(fn) == \E i \in 1..Len(calls) : calls[i].fn = fn

\* One of the two input directories is empty and, for the project
\* procedure, there is no staging database file.
EmptyInputs ==
    /\ proc \in LocalProcs
    /\ ~env.csv \/ ~env.sql
    /\ proc = "local_project_pipeline" => ~env.stagingFile

\* C8: with an empty CSV or create-table directory (and no staging database
\* file for the project procedure) run() and copy_table() are never called,
\* the error is logged, the loading phase raises nothing and leaves the
\* connection closed, the procedure ends normally whenever the tool and the
\* export it may still run do not raise, and it always ends.
C8_EmptyDirectorySwallowed ==
    /\ [](EmptyInputs =>
            /\ ~Called("run") /\ ~Called("copy_table")
            /\ (opc \notin {"start", "try"}) => "no_fill" \in errorLog
            /\ (opc \in {"loaded", "done"}) => (~loaderConn /\ exc = "none")
            /\ (opc = "raised") => (exc \in {"dbt_exec", "export_csv"} /\ Called(exc))
            /\ (~filled /\ Ended) => (opc = "done" /\ ~Called("dbt_exec") /\ ~Called("export_csv")))
    /\ (EmptyInputs ~> Ended)

C8_Witness ==
    /\ EmptyInputs /\ UseCsvEither /\ opc = "done" /\ ~filled
    /\ errorLog = {"no_fill", "empty_db"} /\ Called("close")

IsTool(c, cmd) == c.fn = "dbt_exec" /\ c.cmd = cmd
IsLoading(c) == c.fn \in {"run", "copy_table"}

\* C12: in the four procedures the external tool is invoked only after the
\* loading calls (run, copy_table), its test command only after its run
\* command, and export_csv only after both.
C12_ToolAfterLoading ==
    \A i \in 1..Len(calls) :
        /\ calls[i].fn = "dbt_exec" => \A j \in 1..Len(calls) : IsLoading(calls[j]) => j < i
        /\ IsTool(calls[i], "test") => \E j \in 1..(i - 1) : IsTool(calls[j], "run")
        /\ calls[i].fn = "export_csv" =>
             \E j \in 1..(i - 1) : \E k \in 1..(i - 1) :
                 j < k /\ IsTool(calls[j], "run") /\ IsTool(calls[k], "test")

C12_Witness ==
    /\ proc = "anais_project_pipeline" /\ opc = "done"
    /\ Called("copy_table") /\ Called("dbt_exec") /\ Called("export_csv")

LocalEnded == proc \in LocalProcs /\ Ended

Count(fn) == Cardinality({i \in 1..Len(calls) : calls[i].fn = fn})

\* C15: local_project_pipeline makes exactly one of three fill choices:
\* copy_table when the staging database file exists; otherwise run() when both
\* input directories hold files; otherwise neither, with an error logged.
\* run() is never called when the staging file exists.
C15_OneFillByPriority ==
    proc = "local_project_pipeline" =>
      /\ env.stagingFile => ~Called("run")
      /\ Count("copy_table") + Count("run") <= 1
      /\ opc \notin {"start", "try"} =>
           /\ env.stagingFile =>
                (Count("copy_table") = 1 /\ "no_fill" \notin errorLog)
           /\ (~env.stagingFile /\ env.csv /\ env.sql) =>
                (Count("run") = 1 /\ ~Called("copy_table") /\ "no_fill" \notin errorLog)
           /\ (~env.stagingFile /\ ~(env.csv /\ env.sql)) =>
                (~Called("run") /\ ~Called("copy_table") /\ "no_fill" \in errorLog)

C15_Witness ==
    /\ proc = "local_project_pipeline" /\ Ended
    /\ env.stagingFile /\ env.csv /\ env.sql /\ Called("copy_table")

\* C16: when a procedure has ended, normally or by an exception, the
\* connection its connect() opened is closed.
C16_ConnectionClosedAtEnd == Ended => ~loaderConn

SqlOps == {"run", "copy_table", "is_duckdb_empty", "export_csv"}

\* C17: no procedure calls run, copy_table, is_duckdb_empty or export_csv
\* while the loader's connection is closed, and the export_csv of
\* local_project_pipeline follows a connect() made after is_duckdb_empty and
\* close().
C17_SqlOnOpenConnection ==
    /\ [][(Len(calls') = Len(calls) + 1 /\ calls'[Len(calls')].fn \in SqlOps)
          => loaderConn]_vars
    /\ [](proc = "local_project_pipeline" =>
            \A i \in 1..Len(calls) :
                calls[i].fn = "export_csv" =>
                  \E j \in 1..(i - 1) :
                      /\ calls[j].fn = "connect"
                      /\ \A k \in 1..(i - 1) :
                            calls[k].fn \in {"is_duckdb_empty", "close"} => k < j)

C17_Witness ==
    /\ proc = "local_project_pipeline" /\ opc = "done"
    /\ Called("is_duckdb_empty") /\ Called("export_csv")

\* C18: every tool invocation of a local procedure has target "local", every
\* one of a networked procedure target "anais", and the run and test commands
\* of one procedure have the same target.
C18_TargetMatchesEnvironment ==
    \A i \in 1..Len(calls) :
        calls[i].fn = "dbt_exec" =>
          /\ calls[i].target = (IF proc \in LocalProcs THEN "local" ELSE "anais")
          /\ \A j \in 1..Len(calls) :
                calls[j].fn = "dbt_exec" => calls[j].target = calls[i].target

\* Each step of a procedure is a call that returns or raises.
SpecOrch == InitOrch /\ [][NextOrch]_vars
FairSpecOrch == SpecOrch /\ WF_vars(NextOrch)

\* ---------------------------------------------------------------- run_dbt
Profiles == {"Staging", "Helios"}
Targets == {"local", "anais"}
ProjectDirs == {"Staging", "Helios"}
\* Exit statuses of the dbt run command.
ExitCodes == {0, 1, 2}

\* run_dbt(profile, target, project_dir, ".", logger) is called in a project
\* directory that holds package-lock.yml or not.
InitDbt ==
    /\ AdapterInit([typedb |-> "duckdb", schema |-> DefaultSchema, stagingCfg |-> FALSE])
    /\ proc = "none" /\ opc = "done" /\ env = NoEnv /\ filled = FALSE /\ loaderConn = FALSE
    /\ duckdb_empty = TRUE /\ calls = <<>> /\ errorLog = {} /\ exc = "none"
    /\ \E pr \in Profiles, tg \in Targets, pd \in ProjectDirs, lk \in BOOLEAN, ex \in ExitCodes :
         dbt = [NoDbt EXCEPT !.pc = "paths", !.profile = pr, !.target = tg,
                             !.project_dir = pd, !.lock = lk, !.exit = ex]

DbtStep(d) == dbt' = d /\ UNCHANGED <<adapterVars, orchVars>>

\* project_path = str(Path(project_dir).resolve()); profiles_path likewise
dbt_paths ==
    /\ dbt.pc = "paths"
    /\ DbtStep([dbt EXCEPT !.pc = IF dbt.lock THEN "run" ELSE "deps"])

\* if not os.path.exists(.../package-lock.yml): dbt_deps = dbt_deps(project_path)
\* The assignment makes dbt_deps a local name of run_dbt, so the call reads
\* an unbound local: UnboundLocalError, which the handler does not catch.
dbt_deps ==
    /\ dbt.pc = "deps"
    /\ DbtStep([dbt EXCEPT !.pc = "done", !.raised = "UnboundLocalError"])

RunCommand(d) ==
    [cmd |-> "run", project_dir |-> d.project_dir, profiles_dir |-> ".",
     profile |-> d.profile, target |-> d.target, select |-> <<"+", d.project_dir>>]

\* subprocess.run(["dbt", "run", ...], check=True); a non-zero exit raises
\* CalledProcessError, which is logged; run_dbt then returns.
dbt_run ==
    /\ dbt.pc = "run"
    /\ DbtStep([dbt EXCEPT !.pc = "done", !.cmds = @ \o <<RunCommand(dbt)>>,
                           !.errored = (dbt.exit # 0)])

NextDbt == dbt_paths \/ dbt_deps \/ dbt_run

SpecDbt == InitDbt /\ [][NextDbt]_vars

DbtInvoked(cmd) == \E i \in 1..Len(dbt.cmds) : dbt.cmds[i].cmd = cmd

\* C13: run_dbt invokes the dependency installation before the run command
\* exactly when package-lock.yml is absent, then invokes the run command with
\* its five options; a non-zero exit is logged and run_dbt returns normally.
C13_DepsIffNoLock ==
    dbt.pc = "done"
    => /\ DbtInvoked("deps") <=> ~dbt.lock
       /\ dbt.cmds # <<>> /\ dbt.cmds[Len(dbt.cmds)] = RunCommand(dbt)
       /\ dbt.exit # 0 => dbt.errored
       /\ dbt.raised = "none"

Spec == Init /\ [][Next]_vars
====
